---- MODULE Spec2Model ----
(***************************************************************************)
(* Model of src/main.py: the FileCache (data / last_checked / file_hashes  *)
(* dictionaries), the loader _load_file_data and the request handlers of   *)
(* the FastAPI application, together with the file system and the clock    *)
(* they read.                                                              *)
(*                                                                         *)
(* The application runs on one event loop.  _load_file_data is a coroutine *)
(* without any suspension point, so every handler and every background     *)
(* task runs to completion before another one starts; what can change      *)
(* while a handler runs is the environment: a file of the dataset may be   *)
(* rewritten, created or removed between two of the handler's file-system  *)
(* accesses, and the wall clock may advance.  A handler is therefore one   *)
(* action whose inputs are the environment's interference.                 *)
(***************************************************************************)
EXTENDS Integers, Sequences, FiniteSets, TLC

(***************************************************************************)
(* Bounds of the model.                                                    *)
(***************************************************************************)
MaxTime == 3          \* the clock runs over 0..MaxTime
MaxLoadTime == 1      \* ticks that may pass while one load runs
NumContents == 3      \* distinct byte contents a file may have
MaxWrites == 1        \* writes the environment makes to the file system
MaxRequests == 2      \* requests the clients send

(***************************************************************************)
(* Configuration (src/main.py:21-25, 66-98).                               *)
(***************************************************************************)
BASE_PATHS == <<"G", "H">>

\* timedelta(minutes=5), in ticks of the model's clock: one tick is 150 s
CACHE_TIME == 2

\* two of the catalog's entries: a workbook with a required sheet and a CSV
FILE_CONFIG ==
    [Base_ID  |-> [filename |-> "Base_ID.xlsx", type |-> "excel",
                   required_sheet |-> "RESUMO"],
     PRODUTOS |-> [filename |-> "PRODUTOS.csv", type |-> "csv"]]

\* FILE_CONFIG.keys(), in insertion order
FileIdOrder == <<"Base_ID", "PRODUTOS">>

\* ids a client may put in a URL: the configured ones and one that is not
RequestIds == DOMAIN FILE_CONFIG \cup {"Unknown"}

Roots == {BASE_PATHS[i] : i \in 1..Len(BASE_PATHS)}
Filenames == {FILE_CONFIG[id].filename : id \in DOMAIN FILE_CONFIG}

\* os.path.join(path, filename)
JoinPath(root, filename) == <<root, filename>>
Paths == {JoinPath(r, f) : r \in Roots, f \in Filenames}
NoPath == <<"", "">>

(***************************************************************************)
(* The file system.  A file is absent or holds one of NumContents byte     *)
(* contents; the operators below say what the readers make of a content.   *)
(*   1  a well-formed file without empty cells; as a workbook it has the   *)
(*      sheets RESUMO and Plan1                                            *)
(*   2  a file of the same size with other rows; as a workbook it has the  *)
(*      sheet RESUMO only, with an empty number and an empty date cell     *)
(*   3  as a workbook: no sheet RESUMO; as text: rows with empty, inf and  *)
(*      -inf numbers                                                       *)
(*   others: bytes no reader accepts (a truncated file)                    *)
(***************************************************************************)
Absent == 0
Contents == 1..NumContents
FileStates == {Absent} \cup Contents

\* hashlib.md5 of the bytes, as a number; distinct on the contents modelled
MD5(c) == (c * 11 + 5) % 64

\* os.path.getsize
SizeBytes(c) == CASE c = 1 -> 1572864
                  [] c = 2 -> 1572864
                  [] c = 3 -> 524288
                  [] OTHER -> 2048 * c

\* f"{size/1024/1024:.2f} MB" as <<whole, hundredths>>
FormatMB(bytes) ==
    LET h == (bytes * 200 + 1048576) \div 2097152
    IN  <<h \div 100, h % 100>>

\* wb.sheetnames
SheetNames(c) == CASE c = 1 -> {"RESUMO", "Plan1"}
                   [] c = 2 -> {"RESUMO"}
                   [] c = 3 -> {"Plan1"}
                   [] OTHER -> {}

\* whether openpyxl / the text parser accepts the bytes at all
Opens(type, c) == c \in {1, 2, 3}

(***************************************************************************)
(* Cells and rows.  A cell is a tagged value, so that the reader's null    *)
(* sentinels and its native timestamps are distinguishable from data.  A   *)
(* DataFrame is the sequence of its rows, a row a function from column     *)
(* names to cells; the dtype of a column is what its cells are.            *)
(***************************************************************************)
Num(n)  == [t |-> "num", v |-> n]
Str(n)  == [t |-> "str", v |-> n]
Time(n) == [t |-> "datetime", v |-> n]
NA      == [t |-> "NA", v |-> 0]
NaT     == [t |-> "NaT", v |-> 0]
NaN     == [t |-> "nan", v |-> 0]
PosInf  == [t |-> "inf", v |-> 0]
NegInf  == [t |-> "-inf", v |-> 0]
None    == [t |-> "None", v |-> 0]

\* the DataFrame the reader returns for a content it accepts: read_excel
\* gives datetime64 columns for date cells, read_csv gives their text
RawRows(type, c) ==
    IF type = "excel"
    THEN CASE c = 1 -> << [k |-> Num(1), x |-> Num(7), d |-> Time(10), s |-> Str(1)],
                          [k |-> Num(2), x |-> Num(8), d |-> Time(20), s |-> NaN] >>
           [] c = 2 -> << [k |-> Num(1), x |-> NaN,    d |-> Time(10), s |-> Str(1)],
                          [k |-> Num(2), x |-> Num(8), d |-> NaT,      s |-> Str(2)],
                          [k |-> Num(3), x |-> Num(9), d |-> Time(30), s |-> Str(3)] >>
           [] OTHER -> << [k |-> Num(c), x |-> NaN,    d |-> NaT,      s |-> NaN] >>
    ELSE CASE c = 1 -> << [k |-> Num(1), x |-> Num(7), d |-> Str(10), s |-> Str(1)],
                          [k |-> Num(2), x |-> Num(8), d |-> Str(20), s |-> NaN] >>
           [] c = 2 -> << [k |-> Num(1), x |-> Num(7), d |-> Str(10), s |-> Str(1)],
                          [k |-> Num(2), x |-> Num(9), d |-> Str(20), s |-> Str(2)],
                          [k |-> Num(3), x |-> Num(9), d |-> Str(30), s |-> Str(3)] >>
           [] OTHER -> << [k |-> Num(1), x |-> NaN,    d |-> Str(10), s |-> Str(1)],
                          [k |-> Num(2), x |-> PosInf, d |-> Str(20), s |-> Str(2)],
                          [k |-> Num(3), x |-> NegInf, d |-> Str(30), s |-> Str(3)] >>

\* df.columns
ColumnsOf(rows) == IF Len(rows) = 0 THEN {} ELSE DOMAIN rows[1]

\* the cells of one column
ColumnCells(rows, col) == {rows[i][col] : i \in 1..Len(rows)}

\* df.replace([pd.NA, pd.NaT, float('nan'), float('inf')], None), cell by
\* cell (pandas >= 1.5, where an explicit value=None is the replacement):
\* -inf is not in the list, and a None already there matches pd.NA
ReplaceNulls(cell) ==
    IF cell.t \in {"NA", "NaT", "nan", "inf"} THEN None ELSE cell

\* select_dtypes that also selects the columns holding text
DatetimeColumns_with_text(rows) ==
    {col \in ColumnsOf(rows) :
        \A cell \in ColumnCells(rows, col) : cell.t \in {"datetime", "str"}}

\* df.select_dtypes(include=['datetime']).columns: a column in which a NaT
\* was replaced by None has become an object column and is not selected
DatetimeColumns(rows) ==
    {col \in ColumnsOf(rows) : \A cell \in ColumnCells(rows, col) : cell.t = "datetime"}

\* df[col].dt.strftime('%Y-%m-%d %H:%M:%S')
Strftime(cell) == IF cell.t = "datetime" THEN Str(cell.v) ELSE NaN

\* a normalisation that takes the first row for a second header line
Normalize_header_row(rows) ==
    LET replaced == [i \in 1..Len(rows) |->
                        [col \in ColumnsOf(rows) |-> ReplaceNulls(rows[i][col])]]
        dtcols == DatetimeColumns(replaced)
    IN  [i \in 1..(Len(rows) - 1) |->
            [col \in ColumnsOf(rows) |->
                IF col \in dtcols THEN Strftime(replaced[i + 1][col])
                ELSE replaced[i + 1][col]]]

\* lines 163-166 followed by df.to_dict(orient="records")
Normalize(rows) ==
    LET replaced == [i \in 1..Len(rows) |->
                        [col \in ColumnsOf(rows) |-> ReplaceNulls(rows[i][col])]]
        dtcols == DatetimeColumns(replaced)
    IN  [i \in 1..Len(rows) |->
            [col \in ColumnsOf(rows) |->
                IF col \in dtcols THEN Strftime(replaced[i][col])
                ELSE replaced[i][col]]]

\* pd.DataFrame(records): the constructor infers each column's dtype, so a
\* None among numbers becomes NaN (float64) and a None among timestamps
\* becomes NaT (datetime64); in a column of text, or of None only, it stays
FromRecords(records) ==
    LET kinds(col) == {cell.t : cell \in ColumnCells(records, col)} \ {"None"}
        infer(col, cell) ==
            IF cell.t # "None" \/ kinds(col) = {} THEN cell
            ELSE IF kinds(col) \subseteq {"num", "nan", "inf", "-inf"} THEN NaN
            ELSE IF kinds(col) \subseteq {"datetime", "NaT"} THEN NaT
            ELSE cell
    IN  [i \in 1..Len(records) |->
            [col \in ColumnsOf(records) |-> infer(col, records[i][col])]]

\* df.iloc[skiprows:] when skiprows > 0, then df.head(nrows) when nrows is
\* given (nrows is <<>> for None, <<n>> for n); head(n) with n < 0 keeps all
\* rows but the last -n
Window(rows, skiprows, nrows) ==
    LET from == IF skiprows > 0 THEN skiprows + 1 ELSE 1
        rest == [i \in 1..(IF Len(rows) >= from THEN Len(rows) - from + 1 ELSE 0) |->
                    rows[from + i - 1]]
        keep == IF nrows = <<>> THEN Len(rest)
                ELSE IF nrows[1] >= 0
                THEN (IF nrows[1] < Len(rest) THEN nrows[1] ELSE Len(rest))
                ELSE (IF Len(rest) + nrows[1] > 0 THEN Len(rest) + nrows[1] ELSE 0)
    IN  [i \in 1..keep |-> rest[i]]

\* json.dumps(content, allow_nan=False) in JSONResponse: NaN and the
\* infinities raise ValueError, a Timestamp or NaT raises TypeError
JsonError(records) ==
    LET kinds == UNION {{cell.t : cell \in ColumnCells(records, col)} :
                            col \in ColumnsOf(records)}
    IN  IF kinds \cap {"nan", "inf", "-inf"} # {} THEN "ValueError"
        ELSE IF kinds \cap {"datetime", "NaT", "NA"} # {} THEN "TypeError"
        ELSE ""

(***************************************************************************)
(* Python dictionaries: functions whose domain is the set of keys.         *)
(***************************************************************************)
EmptyDict == [x \in {} |-> 0]
Put(dict, key, value) ==
    [x \in DOMAIN dict \cup {key} |-> IF x = key THEN value ELSE dict[x]]

\* FileCache.__init__
NewFileCache == [data |-> EmptyDict, last_checked |-> EmptyDict,
                 file_hashes |-> EmptyDict]

(***************************************************************************)
(* File-system accesses of one handler run, in program order.  V[i] is the *)
(* file system as access i finds it.                                       *)
(*   1  find_file in get_file_data          (line 209)                     *)
(*   2  find_file in _load_file_data        (line 154)                     *)
(*   3  the hash taken by needs_refresh      (line 42)                     *)
(*   4  load_workbook                        (line 114)                    *)
(*   5  pd.read_excel / pd.read_csv          (lines 118-135)               *)
(*   6  os.path.getsize                      (line 172)                    *)
(*   7  the hash taken by update_cache       (line 61)                     *)
(***************************************************************************)
AccessPoints == 1..7

Least(S) == CHOOSE i \in S : \A j \in S : i <= j

\* find_file that lets the last root containing the file win
find_file_last_root(F, filename) ==
    LET hits == {i \in 1..Len(BASE_PATHS) :
                    F[JoinPath(BASE_PATHS[i], filename)] # Absent}
    IN  IF hits = {} THEN NoPath
        ELSE JoinPath(BASE_PATHS[CHOOSE i \in hits : \A j \in hits : j <= i], filename)

find_file(F, filename) ==
    LET hits == {i \in 1..Len(BASE_PATHS) :
                    F[JoinPath(BASE_PATHS[i], filename)] # Absent}
    IN  IF hits = {} THEN NoPath
        ELSE JoinPath(BASE_PATHS[Least(hits)], filename)

\* open(filepath, "rb") raises when the file is not there
calculate_file_hash(F, filepath) ==
    IF F[filepath] = Absent THEN [raised |-> TRUE, value |-> 0]
    ELSE [raised |-> FALSE, value |-> MD5(F[filepath])]

\* needs_refresh with the gate written as >= : the entry is re-checked one
\* tick early
needs_refresh_ge(c, filepath, t, F) ==
    IF filepath \notin DOMAIN c.last_checked
    THEN [result |-> TRUE, hashed |-> FALSE, gate |-> "absent"]
    ELSE IF t - c.last_checked[filepath] >= CACHE_TIME
    THEN LET current_hash == calculate_file_hash(F, filepath)
         IN  IF current_hash.raised
             THEN [result |-> TRUE, hashed |-> TRUE, gate |-> "hashfail"]
             ELSE IF filepath \notin DOMAIN c.file_hashes
                     \/ current_hash.value # c.file_hashes[filepath]
             THEN [result |-> TRUE, hashed |-> TRUE, gate |-> "changed"]
             ELSE [result |-> FALSE, hashed |-> TRUE, gate |-> "same"]
    ELSE [result |-> FALSE, hashed |-> FALSE, gate |-> "ttl"]

\* needs_refresh without the time gate: every call hashes the file
needs_refresh_no_ttl(c, filepath, t, F) ==
    IF filepath \notin DOMAIN c.last_checked
    THEN [result |-> TRUE, hashed |-> FALSE, gate |-> "absent"]
    ELSE LET current_hash == calculate_file_hash(F, filepath)
         IN  IF current_hash.raised
             THEN [result |-> TRUE, hashed |-> TRUE, gate |-> "hashfail"]
             ELSE IF filepath \notin DOMAIN c.file_hashes
                     \/ current_hash.value # c.file_hashes[filepath]
             THEN [result |-> TRUE, hashed |-> TRUE, gate |-> "changed"]
             ELSE [result |-> FALSE, hashed |-> TRUE, gate |-> "same"]

\* FileCache.needs_refresh; gate names the branch taken, hashed whether the
\* file was opened
needs_refresh(c, filepath, t, F) ==
    IF filepath \notin DOMAIN c.last_checked
    THEN [result |-> TRUE, hashed |-> FALSE, gate |-> "absent"]
    ELSE IF t - c.last_checked[filepath] > CACHE_TIME
    THEN LET current_hash == calculate_file_hash(F, filepath)
         IN  IF current_hash.raised
             THEN [result |-> TRUE, hashed |-> TRUE, gate |-> "hashfail"]
             ELSE IF filepath \notin DOMAIN c.file_hashes
                     \/ current_hash.value # c.file_hashes[filepath]
             THEN [result |-> TRUE, hashed |-> TRUE, gate |-> "changed"]
             ELSE [result |-> FALSE, hashed |-> TRUE, gate |-> "same"]
    ELSE [result |-> FALSE, hashed |-> FALSE, gate |-> "ttl"]

\* update_cache that keeps the check time of an entry it replaces
update_cache_keeps_time(c, filepath, data, t, F) ==
    LET c1 == [c EXCEPT !.data = Put(@, filepath, data)]
        c2 == IF filepath \in DOMAIN c.last_checked THEN c1
              ELSE [c1 EXCEPT !.last_checked = Put(@, filepath, t)]
        h  == calculate_file_hash(F, filepath)
    IN  IF h.raised THEN [raised |-> TRUE, cache |-> c2]
        ELSE [raised |-> FALSE,
              cache |-> [c2 EXCEPT !.file_hashes = Put(@, filepath, h.value)]]

\* update_cache that stamps a replaced entry with the time before its own
update_cache_rewinds(c, filepath, data, t, F) ==
    LET c1 == [c EXCEPT !.data = Put(@, filepath, data)]
        c2 == IF filepath \in DOMAIN c.last_checked
              THEN [c1 EXCEPT !.last_checked = Put(@, filepath, c.last_checked[filepath] - 1)]
              ELSE [c1 EXCEPT !.last_checked = Put(@, filepath, t)]
        h  == calculate_file_hash(F, filepath)
    IN  IF h.raised THEN [raised |-> TRUE, cache |-> c2]
        ELSE [raised |-> FALSE,
              cache |-> [c2 EXCEPT !.file_hashes = Put(@, filepath, h.value)]]

\* FileCache.update_cache: three assignments, the last of which can raise
update_cache(c, filepath, data, t, F) ==
    LET c1 == [c EXCEPT !.data = Put(@, filepath, data)]
        c2 == [c1 EXCEPT !.last_checked = Put(@, filepath, t)]
        h  == calculate_file_hash(F, filepath)
    IN  IF h.raised THEN [raised |-> TRUE, cache |-> c2]
        ELSE [raised |-> FALSE,
              cache |-> [c2 EXCEPT !.file_hashes = Put(@, filepath, h.value)]]

(***************************************************************************)
(* safe_read_file.  error is the exception's kind, available the sheet     *)
(* names its message lists.                                                *)
(***************************************************************************)
ReadOk(rows) == [raised |-> FALSE, error |-> "", available |-> {}, rows |-> rows]
ReadError(error, available) ==
    [raised |-> TRUE, error |-> error, available |-> available, rows |-> <<>>]

\* pd.read_excel(filepath, sheet_name=..., engine='openpyxl') / pd.read_csv
ReadTable(F, filepath, type, sheet) ==
    IF F[filepath] = Absent THEN ReadError("FileNotFoundError", {})
    ELSE IF ~Opens(type, F[filepath]) THEN ReadError("ParseError", {})
    ELSE IF sheet # "" /\ sheet \notin SheetNames(F[filepath])
    THEN ReadError("WorksheetNotFound", {})
    ELSE ReadOk(RawRows(type, F[filepath]))

\* safe_read_file that reads the default sheet when the required one is
\* missing
safe_read_file_fallback(V, filepath, config) ==
    IF config.type = "excel"
    THEN IF "required_sheet" \in DOMAIN config
         THEN IF V[4][filepath] = Absent THEN ReadError("FileNotFoundError", {})
              ELSE IF ~Opens("excel", V[4][filepath]) THEN ReadError("ParseError", {})
              ELSE IF config.required_sheet \notin SheetNames(V[4][filepath])
              THEN ReadTable(V[5], filepath, "excel", "")
              ELSE ReadTable(V[5], filepath, "excel", config.required_sheet)
         ELSE ReadTable(V[5], filepath, "excel", "")
    ELSE ReadTable(V[5], filepath, config.type, "")

safe_read_file(V, filepath, config) ==
    IF config.type = "excel"
    THEN IF "required_sheet" \in DOMAIN config
         THEN IF V[4][filepath] = Absent THEN ReadError("FileNotFoundError", {})
              ELSE IF ~Opens("excel", V[4][filepath]) THEN ReadError("ParseError", {})
              ELSE IF config.required_sheet \notin SheetNames(V[4][filepath])
              THEN ReadError("ValueError", SheetNames(V[4][filepath]))
              ELSE ReadTable(V[5], filepath, "excel", config.required_sheet)
         ELSE ReadTable(V[5], filepath, "excel", "")
    ELSE ReadTable(V[5], filepath, config.type, "")

(***************************************************************************)
(* _load_file_data.  The result carries the exception raised (exc = "" for *)
(* a normal return), the returned pair (refreshed, data), the cache as the *)
(* call leaves it, and what the call did: the path it resolved, the branch *)
(* of needs_refresh it took, how often it ran the reader, how long it took *)
(* and the sheet names the reader's error message lists.                   *)
(***************************************************************************)
NoData == [data |-> <<>>,
           metadata |-> [last_updated |-> -1, file_size |-> <<0, 0>>,
                         row_count |-> 0]]

Raise(exc, status, error, c, path, gate, nread, elapsed, partial) ==
    [exc |-> exc, status |-> status, error |-> error, refreshed |-> FALSE,
     data |-> NoData, cache |-> c, path |-> path, gate |-> gate,
     nread |-> nread, elapsed |-> elapsed, partial |-> partial,
     available |-> {}]

Return(refreshed, data, c, path, gate, nread, elapsed) ==
    [exc |-> "", status |-> 200, error |-> "", refreshed |-> refreshed,
     data |-> data, cache |-> c, path |-> path, gate |-> gate,
     nread |-> nread, elapsed |-> elapsed, partial |-> FALSE,
     available |-> {}]

\* _load_file_data that stamps the entry when the hash check finds the
\* file unchanged
load_file_data_touch(c, file_id, t, d, V) ==
    IF file_id \notin DOMAIN FILE_CONFIG
    THEN Raise("KeyError", 500, "KeyError", c, NoPath, "", 0, 0, FALSE)
    ELSE
    LET config == FILE_CONFIG[file_id]
        filepath == find_file(V[2], config.filename)
    IN  IF filepath = NoPath
        THEN Raise("HTTPException", 404, "NotFound", c, NoPath, "", 0, 0, FALSE)
        ELSE
        LET nr == needs_refresh(c, filepath, t, V[3])
        IN  IF ~nr.result
            THEN IF nr.hashed
                 THEN Return(FALSE, c.data[filepath],
                             [c EXCEPT !.last_checked = Put(@, filepath, t)],
                             filepath, nr.gate, 0, 0)
                 ELSE Return(FALSE, c.data[filepath], c, filepath, nr.gate, 0, 0)
            ELSE
            LET df == safe_read_file(V, filepath, config)
            IN  IF df.raised
                THEN [Raise("Exception", 500, df.error, c, filepath, nr.gate, 1, d, FALSE)
                        EXCEPT !.available = df.available]
                ELSE IF V[6][filepath] = Absent
                THEN Raise("Exception", 500, "FileNotFoundError", c, filepath,
                           nr.gate, 1, d, FALSE)
                ELSE
                LET data == [data |-> Normalize(df.rows),
                             metadata |->
                                [last_updated |-> t + d,
                                 file_size |-> FormatMB(SizeBytes(V[6][filepath])),
                                 row_count |-> Len(df.rows)]]
                    uc == update_cache(c, filepath, data, t + d, V[7])
                IN  IF uc.raised
                    THEN Raise("Exception", 500, "FileNotFoundError", uc.cache,
                               filepath, nr.gate, 1, d, TRUE)
                    ELSE Return(TRUE, data, uc.cache, filepath, nr.gate, 1, d)

load_file_data(c, file_id, t, d, V) ==
    IF file_id \notin DOMAIN FILE_CONFIG
    THEN Raise("KeyError", 500, "KeyError", c, NoPath, "", 0, 0, FALSE)
    ELSE
    LET config == FILE_CONFIG[file_id]
        filepath == find_file(V[2], config.filename)
    IN  IF filepath = NoPath
        THEN Raise("HTTPException", 404, "NotFound", c, NoPath, "", 0, 0, FALSE)
        ELSE
        LET nr == needs_refresh(c, filepath, t, V[3])
        IN  IF ~nr.result
            THEN Return(FALSE, c.data[filepath], c, filepath, nr.gate, 0, 0)
            ELSE
            LET df == safe_read_file(V, filepath, config)
            IN  IF df.raised
                THEN [Raise("Exception", 500, df.error, c, filepath, nr.gate, 1, d, FALSE)
                        EXCEPT !.available = df.available]
                ELSE IF V[6][filepath] = Absent
                THEN Raise("Exception", 500, "FileNotFoundError", c, filepath,
                           nr.gate, 1, d, FALSE)
                ELSE
                LET data == [data |-> Normalize(df.rows),
                             metadata |->
                                [last_updated |-> t + d,
                                 file_size |-> FormatMB(SizeBytes(V[6][filepath])),
                                 row_count |-> Len(df.rows)]]
                    uc == update_cache(c, filepath, data, t + d, V[7])
                IN  IF uc.raised
                    THEN Raise("Exception", 500, "FileNotFoundError", uc.cache,
                               filepath, nr.gate, 1, d, TRUE)
                    ELSE Return(TRUE, data, uc.cache, filepath, nr.gate, 1, d)

(***************************************************************************)
(* State.                                                                  *)
(***************************************************************************)
VARIABLES
    now,       \* datetime.now(), in ticks
    fs,        \* the file system: path -> Absent or a content
    cache,     \* the FileCache instance (line 63)
    torn,      \* history: paths whose last update_cache raised after its
               \* first two assignments
    started,   \* startup_event: index of the next catalog entry to load
    inflight,  \* GET /data requests accepted by the server, not yet served
    bg,        \* background tasks scheduled by responses, oldest first
    last,      \* history: what the handler that just ran did and answered
               \* (NoLast after any other step)
    writes,    \* history: writes the environment has made
    requests,  \* history: requests the clients have sent
    frame      \* a DataFrame taken through lines 163-169 and 215-230 on
               \* its own: the reader's table, the records of the passes
               \* made over it, the window asked of them and the answer

vars == <<now, fs, cache, torn, started, inflight, bg, last, writes, requests, frame>>

\* nrows: Optional[int] as a sequence, <<>> for None
NoLimit == <<>>
Limit(n) == <<n>>

NoLast == [op |-> "", id |-> "", origin |-> "", status |-> 0, exc |-> "",
           error |-> "", path |-> NoPath, refreshed |-> FALSE, gate |-> "",
           nread |-> 0, records |-> <<>>, metadata |-> NoData.metadata,
           prior |-> FALSE, partial |-> FALSE, entry |-> NoData,
           available |-> {}, skiprows |-> 0, nrows |-> NoLimit,
           kind |-> "", items |-> <<>>]

\* the frame before any table is taken through the normalisation
NoFrame == [raw |-> <<>>, first |-> <<>>, second |-> <<>>, passes |-> 0,
            asked |-> FALSE, skiprows |-> 0, nrows |-> NoLimit,
            as_excel |-> FALSE,
            answer |-> [status |-> 0, kind |-> "", records |-> <<>>,
                        metadata |-> NoData.metadata]]

StartupDone == started > Len(FileIdOrder)

(***************************************************************************)
(* The environment's interference with one handler run: nothing, or one    *)
(* write (create, rewrite, remove) to a file of the requested dataset      *)
(* landing after access k and before access k+1.  A write before the       *)
(* handler's first access or after its last is a step of EnvWrite.         *)
(***************************************************************************)
LastAccess == Cardinality(AccessPoints)
NoInterference == [k |-> LastAccess, q |-> NoPath, w |-> Absent]

Interferences(F, budget, file_id, first) ==
    {NoInterference} \cup
    IF file_id \in DOMAIN FILE_CONFIG /\ budget > 0
    THEN UNION {{[k |-> k, q |-> JoinPath(r, FILE_CONFIG[file_id].filename),
                  w |-> w] :
                    k \in first..(LastAccess - 1),
                    w \in FileStates \ {F[JoinPath(r, FILE_CONFIG[file_id].filename)]}} :
                r \in Roots}
    ELSE {}

Written(F, x) == IF x.k < LastAccess THEN [F EXCEPT ![x.q] = x.w] ELSE F

\* the writes an interference adds to the environment's count
Wrote(x) == IF x.k < LastAccess THEN 1 ELSE 0

Views(F, x) == [i \in AccessPoints |-> IF i <= x.k THEN F ELSE Written(F, x)]

Torn(t, r) == IF r.partial THEN t \cup {r.path}
              ELSE IF r.refreshed THEN t \ {r.path}
              ELSE t

(***************************************************************************)
(* get_file_data (GET /data/{file_id}).  kind is "json" for a JSONResponse *)
(* and "file" for the FileResponse of the as_excel export, whose records   *)
(* are the rows written to temp_{file_id}.xlsx (the temporary file itself  *)
(* is not part of the state).  scheduled says whether the background task  *)
(* added at line 206 is run: FastAPI attaches the tasks to the response    *)
(* the handler returns, so a handler that raises schedules nothing.        *)
(***************************************************************************)
Response(status, cause, r, scheduled, kind, records) ==
    [status |-> status, cause |-> cause, load |-> r, scheduled |-> scheduled,
     kind |-> kind, records |-> records,
     metadata |-> IF status = 200 /\ kind = "json" THEN r.data.metadata
                  ELSE NoData.metadata]

NotLoaded(c) == Raise("", 0, "", c, NoPath, "", 0, 0, FALSE)

\* lines 215-230: the cached records go through a DataFrame, the window is
\* cut from it, and what is left is written out or serialised
Answer(r, skiprows, nrows, as_excel) ==
    LET out == Window(FromRecords(r.data.data), skiprows, nrows)
    IN  IF as_excel THEN Response(200, "", r, TRUE, "file", out)
        ELSE IF JsonError(out) # ""
        THEN Response(500, JsonError(out), r, FALSE, "", <<>>)
        ELSE Response(200, "", r, TRUE, "json", out)

\* get_file_data answering from the entry cached when the call began
get_file_data_answers_stale(c, file_id, skiprows, nrows, as_excel, t, d, V) ==
    IF file_id \notin DOMAIN FILE_CONFIG
    THEN Response(500, "KeyError", NotLoaded(c), FALSE, "", <<>>)
    ELSE IF find_file(V[1], FILE_CONFIG[file_id].filename) = NoPath
    THEN Response(404, "NotFound", NotLoaded(c), FALSE, "", <<>>)
    ELSE LET r == load_file_data(c, file_id, t, d, V)
         IN  IF r.exc # ""
             THEN Response(500, r.error, r, FALSE, "", <<>>)
             ELSE IF r.path \in DOMAIN c.data
             THEN Answer([r EXCEPT !.data = c.data[r.path]], skiprows, nrows, as_excel)
             ELSE Answer(r, skiprows, nrows, as_excel)

get_file_data(c, file_id, skiprows, nrows, as_excel, t, d, V) ==
    IF file_id \notin DOMAIN FILE_CONFIG
    THEN Response(500, "KeyError", NotLoaded(c), FALSE, "", <<>>)
    ELSE IF find_file(V[1], FILE_CONFIG[file_id].filename) = NoPath
    THEN Response(404, "NotFound", NotLoaded(c), FALSE, "", <<>>)
    ELSE LET r == load_file_data(c, file_id, t, d, V)
         IN  IF r.exc # ""
             THEN Response(500, r.error, r, FALSE, "", <<>>)
             ELSE Answer(r, skiprows, nrows, as_excel)

(***************************************************************************)
(* refresh_file and refresh_all: the task list the response carries.       *)
(***************************************************************************)
Task(file_id, origin) == [id |-> file_id, origin |-> origin]

refresh_file(tasks, file_id) ==
    [tasks |-> Append(tasks, Task(file_id, "refresh")), status |-> 200]

\* refresh_all that stops after the first catalog entry
refresh_all_first_only(tasks) ==
    [tasks |-> Append(tasks, Task(FileIdOrder[1], "refresh_all")), status |-> 200]

refresh_all(tasks) ==
    [tasks |-> tasks \o [i \in 1..Len(FileIdOrder) |->
                            Task(FileIdOrder[i], "refresh_all")],
     status |-> 200]

(***************************************************************************)
(* list_files (GET /files).  Its file-system accesses, in program order,   *)
(* are find_file and os.stat for each catalog entry: accesses 2i-1 and 2i  *)
(* for the i-th entry.  An item carries name, type, size and path; the     *)
(* modification time it also reports is not part of the file system as     *)
(* modelled.  os.stat raises when the file has gone since find_file saw    *)
(* it, and nothing catches that.                                           *)
(***************************************************************************)
ListAccessPoints == 1..(2 * Len(FileIdOrder))

RECURSIVE list_from(_, _, _)
\* the loop of lines 238-248 from the i-th catalog entry on
list_from(V, i, available) ==
    IF i > Len(FileIdOrder)
    THEN [status |-> 200, error |-> "", items |-> available]
    ELSE LET file_id == FileIdOrder[i]
             config == FILE_CONFIG[file_id]
             path == find_file(V[2 * i - 1], config.filename)
         IN  IF path = NoPath THEN list_from(V, i + 1, available)
             ELSE IF V[2 * i][path] = Absent
             THEN [status |-> 500, error |-> "FileNotFoundError", items |-> <<>>]
             ELSE list_from(V, i + 1,
                    Append(available,
                           [name |-> file_id, type |-> config.type,
                            size |-> FormatMB(SizeBytes(V[2 * i][path])),
                            path |-> path]))

list_files(V) == list_from(V, 1, <<>>)

\* one write landing between find_file and os.stat of one catalog entry,
\* to a file of that entry; any other write leaves what list_files returns
\* as if it had landed before the handler or after it, and is a step of
\* EnvWrite
ListInterferences(F, budget) ==
    {NoInterference} \cup
    IF budget > 0
    THEN UNION {{[k |-> 2 * i - 1,
                  q |-> JoinPath(r, FILE_CONFIG[FileIdOrder[i]].filename),
                  w |-> w] :
                    w \in FileStates \ {F[JoinPath(r, FILE_CONFIG[FileIdOrder[i]].filename)]}} :
                r \in Roots, i \in 1..Len(FileIdOrder)}
    ELSE {}

(***************************************************************************)
(* Actions.                                                                *)
(***************************************************************************)
\* the files when the process starts: the workbook lies under the second
\* root only, the CSV under the first; the environment changes them later
InitialFiles ==
    [q \in Paths |->
        IF q = JoinPath(BASE_PATHS[2], FILE_CONFIG["Base_ID"].filename)
           \/ q = JoinPath(BASE_PATHS[1], FILE_CONFIG["PRODUTOS"].filename)
        THEN 1 ELSE Absent]

\* the query strings the clients send: the defaults, and the export of a
\* window
Windows ==
    {[skiprows |-> 0, nrows |-> NoLimit,  as_excel |-> FALSE],
     [skiprows |-> 1, nrows |-> Limit(1), as_excel |-> TRUE]}

Init ==
    /\ now = 0
    /\ fs = InitialFiles
    /\ cache = NewFileCache
    /\ torn = {}
    /\ started = 1
    /\ inflight = <<>>
    /\ bg = <<>>
    /\ last = NoLast
    /\ writes = 0
    /\ requests = 0
    /\ frame = NoFrame

\* the wall clock advances
Tick ==
    /\ now < MaxTime
    /\ now' = now + 1
    /\ last' = NoLast
    /\ UNCHANGED <<fs, cache, torn, started, inflight, bg, writes, requests, frame>>

\* somebody creates, rewrites or removes a file
EnvWrite ==
    /\ writes < MaxWrites
    /\ \E q \in Paths, w \in FileStates :
          /\ w # fs[q]
          /\ fs' = [fs EXCEPT ![q] = w]
    /\ writes' = writes + 1
    /\ last' = NoLast
    /\ UNCHANGED <<now, cache, torn, started, inflight, bg, requests, frame>>

\* what a handler that ran _load_file_data leaves in the history
Ran(op, file_id, r) ==
    [NoLast EXCEPT !.op = op, !.id = file_id, !.status = r.status,
                   !.exc = r.exc, !.error = r.error, !.path = r.path,
                   !.refreshed = r.refreshed, !.gate = r.gate,
                   !.nread = r.nread, !.partial = r.partial,
                   !.entry = r.data, !.available = r.available]

\* one iteration of startup_event's loop; every exception is logged
StartupLoad ==
    /\ ~StartupDone
    /\ \E x \in Interferences(fs, MaxWrites - writes, FileIdOrder[started], 2), d \in 0..MaxLoadTime :
          LET r == load_file_data(cache, FileIdOrder[started], now, d, Views(fs, x))
          IN  /\ now + r.elapsed <= MaxTime
              /\ writes' = writes + Wrote(x)
              /\ now' = now + r.elapsed
              /\ fs' = Written(fs, x)
              /\ cache' = r.cache
              /\ torn' = Torn(torn, r)
              /\ last' = Ran("startup", FileIdOrder[started], r)
    /\ started' = started + 1
    /\ UNCHANGED <<inflight, bg, requests, frame>>

\* the server accepts a GET /data/{file_id}
Arrive ==
    /\ StartupDone
    /\ requests < MaxRequests
    /\ \E id \in RequestIds :
          inflight' = Append(inflight, [id |-> id, prior |-> FALSE])
    /\ requests' = requests + 1
    /\ last' = NoLast
    /\ UNCHANGED <<now, fs, cache, torn, started, bg, writes, frame>>

Remove(seq, i) == [j \in 1..(Len(seq) - 1) |-> IF j < i THEN seq[j] ELSE seq[j + 1]]

\* the event loop runs get_file_data for one of the accepted requests
GetFileData ==
    /\ StartupDone
    /\ \E i \in 1..Len(inflight), win \in Windows :
       \E x \in Interferences(fs, MaxWrites - writes, inflight[i].id, 1), d \in 0..MaxLoadTime :
          LET file_id == inflight[i].id
              resp == get_file_data(cache, file_id, win.skiprows, win.nrows,
                                    win.as_excel, now, d, Views(fs, x))
              r == resp.load
              rest == Remove(inflight, i)
          IN  /\ now + r.elapsed <= MaxTime
              /\ writes' = writes + Wrote(x)
              /\ now' = now + r.elapsed
              /\ fs' = Written(fs, x)
              /\ cache' = r.cache
              /\ torn' = Torn(torn, r)
              /\ inflight' = [j \in 1..Len(rest) |->
                                 IF rest[j].id = file_id /\ r.nread > 0
                                 THEN [rest[j] EXCEPT !.prior = TRUE]
                                 ELSE rest[j]]
              /\ bg' = IF resp.scheduled
                       THEN Append(bg, Task(file_id, "get"))
                       ELSE bg
              /\ last' = [Ran("get", file_id, r) EXCEPT
                             !.status = resp.status, !.error = resp.cause,
                             !.records = resp.records,
                             !.metadata = resp.metadata,
                             !.kind = resp.kind,
                             !.skiprows = win.skiprows, !.nrows = win.nrows,
                             !.prior = inflight[i].prior]
    /\ UNCHANGED <<started, requests, frame>>

\* refresh_file (GET /refresh/{file_id})
RefreshFile ==
    /\ StartupDone
    /\ requests < MaxRequests
    /\ \E file_id \in RequestIds :
          /\ bg' = refresh_file(bg, file_id).tasks
          /\ last' = [NoLast EXCEPT !.op = "refresh", !.id = file_id,
                                    !.status = refresh_file(bg, file_id).status]
    /\ requests' = requests + 1
    /\ UNCHANGED <<now, fs, cache, torn, started, inflight, writes, frame>>

\* refresh_all (GET /refresh-all)
RefreshAll ==
    /\ StartupDone
    /\ requests < MaxRequests
    /\ bg' = refresh_all(bg).tasks
    /\ last' = [NoLast EXCEPT !.op = "refresh_all",
                              !.status = refresh_all(bg).status]
    /\ requests' = requests + 1
    /\ UNCHANGED <<now, fs, cache, torn, started, inflight, writes, frame>>

\* list_files (GET /files)
ListFiles ==
    /\ StartupDone
    /\ requests < MaxRequests
    /\ \E x \in ListInterferences(fs, MaxWrites - writes) :
          LET r == list_files(Views(fs, x))
          IN  /\ writes' = writes + Wrote(x)
              /\ fs' = Written(fs, x)
              /\ last' = [NoLast EXCEPT !.op = "list", !.status = r.status,
                                        !.error = r.error, !.items = r.items]
    /\ requests' = requests + 1
    /\ UNCHANGED <<now, cache, torn, started, inflight, bg, frame>>

\* the oldest background task runs: _load_file_data(file_id); what it
\* raises is logged by the server and reaches nobody
RunTask ==
    /\ bg # <<>>
    /\ \E x \in Interferences(fs, MaxWrites - writes, Head(bg).id, 2), d \in 0..MaxLoadTime :
          LET r == load_file_data(cache, Head(bg).id, now, d, Views(fs, x))
          IN  /\ now + r.elapsed <= MaxTime
              /\ writes' = writes + Wrote(x)
              /\ now' = now + r.elapsed
              /\ fs' = Written(fs, x)
              /\ cache' = r.cache
              /\ torn' = Torn(torn, r)
              /\ last' = [Ran("task", Head(bg).id, r) EXCEPT
                             !.origin = Head(bg).origin]
    /\ bg' = Tail(bg)
    /\ UNCHANGED <<started, inflight, requests, frame>>

Next ==
    \/ Tick
    \/ EnvWrite
    \/ StartupLoad
    \/ Arrive
    \/ GetFileData
    \/ RefreshFile
    \/ RefreshAll
    \/ ListFiles
    \/ RunTask

Spec == Init /\ [][Next]_vars

(***************************************************************************)
(* The record pipeline on its own: a table as a reader may return it is    *)
(* normalised (lines 163-169); the records it gives are loaded into a      *)
(* DataFrame again (as line 215 does) and normalised a second time, or     *)
(* are answered to a GET that asks for a window of them (lines 215-230).   *)
(***************************************************************************)
MaxRows == 2

\* the cells a reader puts in a column of each dtype
ColumnDtypes ==
    {{Num(1), NaN, PosInf, NegInf},   \* float64
     {Time(1), NaT},                  \* datetime64[ns]
     {Str(1), NA, NaN}}               \* object

\* the tables of 1..MaxRows rows over the columns a and b
Tables ==
    UNION {{[i \in 1..n |-> [a |-> ca[i], b |-> cb[i]]] :
                ca \in [1..n -> A], cb \in [1..n -> B]} :
            n \in 1..MaxRows, A \in ColumnDtypes, B \in ColumnDtypes}

\* the values of skiprows and nrows a query string carries, around the
\* sizes of the tables
SkipValues == -1..MaxRows
LimitValues == {NoLimit} \cup {Limit(n) : n \in -1..MaxRows}

RecInit ==
    /\ now = 0
    /\ fs = InitialFiles
    /\ cache = NewFileCache
    /\ torn = {}
    /\ started = 1
    /\ inflight = <<>>
    /\ bg = <<>>
    /\ last = NoLast
    /\ writes = 0
    /\ requests = 0
    /\ frame \in {[NoFrame EXCEPT !.raw = table] : table \in Tables}

\* lines 163-169 on the reader's table
FirstPass ==
    /\ frame.passes = 0
    /\ frame' = [frame EXCEPT !.first = Normalize(frame.raw), !.passes = 1]
    /\ UNCHANGED <<now, fs, cache, torn, started, inflight, bg, last, writes, requests>>

\* pd.DataFrame(records), then lines 163-169 again
SecondPass ==
    /\ frame.passes = 1
    /\ ~frame.asked
    /\ frame' = [frame EXCEPT !.second = Normalize(FromRecords(frame.first)), !.passes = 2]
    /\ UNCHANGED <<now, fs, cache, torn, started, inflight, bg, last, writes, requests>>

\* the entry _load_file_data builds from the table (lines 168-175)
EntryOf(f) ==
    [data |-> f.first,
     metadata |-> [last_updated |-> 0, file_size |-> <<0, 0>>,
                   row_count |-> Len(f.raw)]]

\* lines 215-230 of a GET that found the table's records cached
Ask ==
    /\ frame.passes = 1
    /\ ~frame.asked
    /\ \E skiprows \in SkipValues, nrows \in LimitValues, as_excel \in BOOLEAN :
          LET r == Return(FALSE, EntryOf(frame), NewFileCache, NoPath, "ttl", 0, 0)
              resp == Answer(r, skiprows, nrows, as_excel)
          IN  frame' = [frame EXCEPT !.asked = TRUE, !.skiprows = skiprows,
                               !.nrows = nrows, !.as_excel = as_excel,
                               !.answer = [status |-> resp.status,
                                           kind |-> resp.kind,
                                           records |-> resp.records,
                                           metadata |-> resp.metadata]]
    /\ UNCHANGED <<now, fs, cache, torn, started, inflight, bg, last, writes, requests>>

RecNext ==
    \/ FirstPass
    \/ SecondPass
    \/ Ask

SpecRecords == RecInit /\ [][RecNext]_vars

(***************************************************************************)
(* Properties.                                                             *)
(***************************************************************************)
Configured == DOMAIN FILE_CONFIG

\* the path find_file gives for a dataset in the current file system
Resolved(id) == find_file(fs, FILE_CONFIG[id].filename)

\* whether the reader accepts the bytes the file holds now
Readable(id, filepath) ==
    ~safe_read_file([i \in AccessPoints |-> fs], filepath, FILE_CONFIG[id]).raised

\* a handler that runs _load_file_data has just run
Loaded(l) == l.op \in {"startup", "get", "task"}

\* its call of _load_file_data returned (refreshed, data)
Returned(l) == Loaded(l) /\ l.exc = "" /\ l.path # NoPath

\* C1: needs_refresh(path) is true when the cache has no entry for path; is
\* false, without opening the file, while now - last_checked <= CACHE_TIME;
\* and past that is true exactly when the file cannot be hashed or its hash
\* differs from the stored one.  Stated for every path, in every reachable
\* cache and clock, against every state the file may be in.
C1_NeedsRefreshContract ==
    \A filepath \in Paths, w \in FileStates :
        LET r == needs_refresh(cache, filepath, now, [fs EXCEPT ![filepath] = w])
        IN  IF filepath \notin DOMAIN cache.last_checked
            THEN r.result /\ ~r.hashed
            ELSE IF now - cache.last_checked[filepath] <= CACHE_TIME
            THEN ~r.result /\ ~r.hashed
            ELSE /\ r.hashed
                 /\ r.result <=> \/ w = Absent
                                 \/ filepath \notin DOMAIN cache.file_hashes
                                 \/ MD5(w) # cache.file_hashes[filepath]

\* a GET found its entry older than the TTL, hashed the file and found the
\* stored hash: needs_refresh returned false
C1_Witness ==
    /\ last.op = "get"
    /\ last.gate = "same"
    /\ ~last.refreshed
    /\ now - cache.last_checked[last.path] > CACHE_TIME

\* C2: a background task scheduled by refresh_file or refresh_all runs the
\* reader on the dataset's file whenever the file exists, whatever the age
\* of the entry.
C2_ForcedRefreshAlwaysReads ==
    (last.op = "task" /\ last.origin \in {"refresh", "refresh_all"}
        /\ last.path # NoPath)
    => last.nread = 1

\* C3: a GET, a background refresh or a startup load that fails leaves the
\* whole cache as it was.
C3_FailedLoadKeepsCache ==
    [][(Loaded(last') /\ last'.exc # "") => cache' = cache]_vars

\* C4: for every path, data, last_checked and file_hashes hold an entry
\* together or not at all, and the three were written by one update_cache.
C4_EntryWrittenAsAWhole ==
    \A filepath \in Paths :
        /\ filepath \in DOMAIN cache.data <=> filepath \in DOMAIN cache.last_checked
        /\ filepath \in DOMAIN cache.data <=> filepath \in DOMAIN cache.file_hashes
        /\ filepath \notin torn

\* C5: of the GETs for one dataset that are in flight together, at most one
\* runs the reader: a GET that was waiting while another GET for the same
\* dataset read the file does not read it again.
C5_ConcurrentGetsReadOnce ==
    ~(last.op = "get" /\ last.prior /\ last.nread > 0)

\* the entry of the dataset's resolved path is within its TTL
FreshEntry(id) ==
    /\ Resolved(id) # NoPath
    /\ Resolved(id) \in DOMAIN cache.last_checked
    /\ now - cache.last_checked[Resolved(id)] <= CACHE_TIME

\* C6: a GET for a dataset whose resolved path has an entry not older than
\* CACHE_TIME, served while the dataset's files stay as they are, gets
\* refreshed = false and that entry from the loader, which neither hashes
\* nor reads the file; the cache is left as it was.
C6_FreshEntryServedWithoutRead ==
    [][\A id \in Configured :
          (last'.op = "get" /\ last'.id = id /\ FreshEntry(id) /\ fs' = fs)
          => /\ last'.exc = ""
             /\ ~last'.refreshed
             /\ last'.gate = "ttl"
             /\ last'.nread = 0
             /\ last'.path = Resolved(id)
             /\ last'.entry = cache.data[Resolved(id)]
             /\ cache' = cache]_vars

\* a GET was served from an entry exactly CACHE_TIME old, loaded earlier
C6_Witness ==
    /\ last.op = "get"
    /\ last.status = 200
    /\ last.entry = cache.data[last.path]
    /\ last.gate = "ttl"
    /\ last.path \in DOMAIN cache.file_hashes
    /\ now - cache.last_checked[last.path] = CACHE_TIME

\* the entry of the dataset's resolved path is older than the TTL and the
\* file's bytes no longer hash to the stored value
StaleChanged(id) ==
    /\ Resolved(id) # NoPath
    /\ Resolved(id) \in DOMAIN cache.last_checked
    /\ now - cache.last_checked[Resolved(id)] > CACHE_TIME
    /\ \/ Resolved(id) \notin DOMAIN cache.file_hashes
       \/ MD5(fs[Resolved(id)]) # cache.file_hashes[Resolved(id)]

\* what a GET commits when it reloads the dataset from the bytes its file
\* holds
Reloaded(id) ==
    /\ last'.exc = ""
    /\ last'.refreshed
    /\ last'.nread = 1
    /\ last'.entry = cache'.data[Resolved(id)]
    /\ cache'.data[Resolved(id)].data =
          Normalize(RawRows(FILE_CONFIG[id].type, fs[Resolved(id)]))
    /\ cache'.file_hashes[Resolved(id)] = MD5(fs[Resolved(id)])
    /\ cache'.last_checked[Resolved(id)] >= now
    /\ cache'.last_checked[Resolved(id)] = now'

\* C7 as claimed: a GET that finds the entry past its TTL and the file's
\* hash changed reloads the file, returns refreshed = true and commits an
\* entry built from the file's bytes, with their hash and the time of the
\* GET.
C7_ChangedFileIsReloaded ==
    [][\A id \in Configured :
          (last'.op = "get" /\ last'.id = id /\ StaleChanged(id) /\ fs' = fs)
          => Reloaded(id)]_vars

\* C7 as amended: such a GET runs the reader on the file; if the reader
\* accepts the bytes the GET commits the entry as claimed, and if it does
\* not the GET answers with an error and the cache is left as it was.
C7_ChangedFileIsReloadedIfReadable ==
    [][\A id \in Configured :
          (last'.op = "get" /\ last'.id = id /\ StaleChanged(id) /\ fs' = fs)
          => /\ last'.gate = "changed"
             /\ last'.nread = 1
             /\ IF Readable(id, Resolved(id))
                THEN Reloaded(id)
                ELSE last'.exc # "" /\ last'.status = 500 /\ cache' = cache]_vars

\* a GET reloaded a dataset whose entry was past its TTL and whose file had
\* other bytes of the same size
C7_Witness ==
    /\ last.op = "get"
    /\ last.gate = "changed"
    /\ last.refreshed
    /\ cache.last_checked[last.path] = now
    /\ cache.file_hashes[last.path] = MD5(2)
    /\ SizeBytes(2) = SizeBytes(1)

\* lines 217-220 with the window a handler was asked for
Windowed(records, l) == Window(records, l.skiprows, l.nrows)

\* C8 as claimed: a GET answers with the records of the entry that was
\* cached when it was called, also when that entry is stale, and leaves
\* the reload to the task it schedules.
C8_GetAnswersFromOldEntry ==
    [][(last'.op = "get" /\ last'.status = 200 /\ last'.kind = "json"
            /\ last'.path \in DOMAIN cache.data)
       => /\ last'.records = Windowed(cache.data[last'.path].data, last')
          /\ cache' = cache]_vars

\* C8 as amended: a GET awaits its own load before it answers: what it
\* answers is built from the entry as that call leaves it (so from the
\* records just loaded when the entry was stale), a JSON body carrying the
\* requested window of that entry's records and its metadata, and the task
\* it schedules is still queued when the response is produced.
C8_GetAnswersFromOwnLoad ==
    [][(last'.op = "get" /\ last'.status = 200)
       => /\ last'.path \in DOMAIN cache'.data
          /\ last'.records =
                Windowed(FromRecords(cache'.data[last'.path].data), last')
          /\ last'.kind = "json"
                => /\ last'.records = Windowed(cache'.data[last'.path].data, last')
                   /\ last'.metadata = cache'.data[last'.path].metadata
          /\ bg' = Append(bg, Task(last'.id, "get"))]_vars

\* a GET found a stale entry and answered with records that differ from
\* the ones it found cached: those of the reload it ran itself
C8_Witness ==
    /\ last.op = "get"
    /\ last.status = 200
    /\ last.refreshed
    /\ last.gate = "changed"
    /\ last.kind = "json"
    /\ last.skiprows = 0 /\ last.nrows = NoLimit
    /\ last.records = cache.data[last.path].data
    /\ last.records # Normalize(RawRows(FILE_CONFIG[last.id].type, 1))
    /\ bg # <<>>

\* the tasks of a queue that are for one dataset
TasksFor(tasks, id) == {i \in 1..Len(tasks) : tasks[i].id = id}

\* C9: refresh_file and refresh_all answer 200 at once: the response is
\* produced with the cache, the files and the clock untouched and every
\* task they schedule still queued; refresh_file queues one task for its
\* id, whatever the id, and refresh_all one task for each catalog entry.
C9_RefreshAcknowledgesAtOnce ==
    [][/\ last'.op \in {"refresh", "refresh_all"}
          => /\ last'.status = 200
             /\ cache' = cache /\ fs' = fs /\ now' = now
             /\ SubSeq(bg', 1, Len(bg)) = bg
       /\ last'.op = "refresh"
          => bg' = Append(bg, Task(last'.id, "refresh"))
       /\ last'.op = "refresh_all"
          => /\ Len(bg') = Len(bg) + Cardinality(Configured)
             /\ \A id \in Configured :
                   Cardinality(TasksFor(bg', id)) = Cardinality(TasksFor(bg, id)) + 1]_vars

\* refresh_all has answered while a task was already waiting, and one more
\* task for each dataset is queued behind it
C9_Witness ==
    /\ last.op = "refresh_all"
    /\ last.status = 200
    /\ Len(bg) > Cardinality(Configured)
    /\ \A id \in Configured : TasksFor(bg, id) # {}

\* C10: a GET for an id that is not configured, or whose file is in none of
\* the roots or goes missing while the GET is served, answers 404 and no
\* records.
C10_MissingDatasetIsNotFound ==
    (last.op = "get"
        /\ \/ last.id \notin Configured
           \/ last.error \in {"NotFound", "FileNotFoundError"})
    => last.status = 404 /\ last.records = <<>>

\* C11: a load that reads one dataset's file never keeps a GET for another
\* dataset, whose entry is fresh, waiting: no such GET, accepted before the
\* read began, is still unserved when the read has taken its time.
C11_OtherDatasetNotDelayed ==
    [][~(/\ Loaded(last') /\ last'.nread > 0 /\ now' > now
         /\ \E i \in 1..Len(inflight) :
               /\ inflight[i].id \in Configured
               /\ inflight[i].id # last'.id
               /\ FreshEntry(inflight[i].id)
               /\ \E j \in 1..Len(inflight') : inflight'[j].id = inflight[i].id)]_vars

\* whether some root holds the dataset's file
Exists(id) == \E r \in Roots : fs[JoinPath(r, FILE_CONFIG[id].filename)] # Absent

\* the dataset's file under the first root, in configured order, holding it
EarliestPath(id) ==
    JoinPath(BASE_PATHS[Least({i \in 1..Len(BASE_PATHS) :
                fs[JoinPath(BASE_PATHS[i], FILE_CONFIG[id].filename)] # Absent})],
             FILE_CONFIG[id].filename)

\* the items of a listing that name one dataset
ItemsFor(items, id) == {i \in 1..Len(items) : items[i].name = id}

\* C12: list_files, run while no file is created or removed, answers 200
\* with exactly one item for each configured dataset whose file is in some
\* root and none for any other; the item's path is the file under the
\* earliest such root, which is the path a GET resolves, and its type is
\* the configured one.
C12_ListsExistingDatasets ==
    [][(last'.op = "list" /\ fs' = fs)
       => /\ last'.status = 200
          /\ \A i \in 1..Len(last'.items) : last'.items[i].name \in Configured
          /\ \A id \in Configured :
                IF Exists(id)
                THEN /\ Cardinality(ItemsFor(last'.items, id)) = 1
                     /\ \A i \in ItemsFor(last'.items, id) :
                           /\ last'.items[i].path = EarliestPath(id)
                           /\ last'.items[i].path = Resolved(id)
                           /\ last'.items[i].type = FILE_CONFIG[id].type
                           /\ last'.items[i].size =
                                 FormatMB(SizeBytes(fs[EarliestPath(id)]))
                ELSE ItemsFor(last'.items, id) = {}]_vars

\* a listing made while the workbook lay under both roots names it once,
\* under the first root, and leaves out the CSV, which lay under none
C12_Witness ==
    /\ last.op = "list"
    /\ last.status = 200
    /\ \A r \in Roots : fs[JoinPath(r, FILE_CONFIG["Base_ID"].filename)] # Absent
    /\ \E i \in 1..Len(last.items) :
          /\ last.items[i].name = "Base_ID"
          /\ last.items[i].path = JoinPath(BASE_PATHS[1], FILE_CONFIG["Base_ID"].filename)

\* the number of records C13 claims for n cached records, a negative
\* skiprows dropping nothing and a negative nrows keeping nothing
ClaimedCount(n, skiprows, nrows) ==
    LET drop == IF skiprows > 0 THEN skiprows ELSE 0
        rest == IF n - drop > 0 THEN n - drop ELSE 0
        keep == IF nrows = NoLimit THEN rest
                ELSE IF nrows[1] > 0 THEN nrows[1] ELSE 0
    IN  IF keep < rest THEN keep ELSE rest

\* C13: for every cached record sequence and all integers skiprows and
\* nrows, a GET answers 200 with the cached records from the one after the
\* first skiprows on, min(nrows, max(0, n - skiprows)) of them (all that
\* remain without nrows), and with the entry's metadata.
C13_WindowIsSkipThenLimit ==
    (frame.asked /\ ~frame.as_excel)
    => /\ frame.answer.status = 200
       /\ Len(frame.answer.records) =
             ClaimedCount(Len(frame.first), frame.skiprows, frame.nrows)
       /\ \A i \in 1..Len(frame.answer.records) :
             LET j == i + (IF frame.skiprows > 0 THEN frame.skiprows ELSE 0)
             IN  j \in 1..Len(frame.first) /\ frame.answer.records[i] = frame.first[j]
       /\ frame.answer.metadata = EntryOf(frame).metadata

\* C14: when _load_file_data reads a workbook that lacks the configured
\* required sheet (the file not being rewritten meanwhile), the read fails
\* with the ValueError that lists the workbook's sheet names; the loader
\* raises, returns no records and leaves the cache as it was.
C14_MissingSheetFailsWithList ==
    [][\A id \in Configured :
          (/\ Loaded(last') /\ last'.id = id /\ last'.nread = 1 /\ fs' = fs
           /\ "required_sheet" \in DOMAIN FILE_CONFIG[id]
           /\ Opens("excel", fs[last'.path])
           /\ FILE_CONFIG[id].required_sheet \notin SheetNames(fs[last'.path]))
          => /\ last'.exc # ""
             /\ last'.status = 500
             /\ last'.error = "ValueError"
             /\ last'.available = SheetNames(fs[last'.path])
             /\ last'.entry = NoData
             /\ last'.records = <<>>
             /\ ~last'.refreshed
             /\ cache' = cache]_vars

\* a GET read a workbook that had lost its required sheet since it was
\* cached: it failed listing the sheet the file has, and the entry stayed
C14_Witness ==
    /\ last.op = "get"
    /\ last.error = "ValueError"
    /\ last.available = {"Plan1"}
    /\ last.gate = "changed"
    /\ last.path \in DOMAIN cache.data
    /\ cache.data[last.path].data # <<>>

\* C15: every cached entry's row_count is the number of its records, and
\* the entry a loader returns is the cached one, records and metadata.
C15_RowCountIsLength ==
    /\ \A filepath \in DOMAIN cache.data :
          cache.data[filepath].metadata.row_count = Len(cache.data[filepath].data)
    /\ Returned(last)
          => /\ last.entry = cache.data[last.path]
             /\ last.entry.metadata.row_count = Len(last.entry.data)
    /\ (last.op = "get" /\ last.status = 200 /\ last.kind = "json")
          => last.metadata = cache.data[last.path].metadata

\* an entry has been replaced by one with another number of records
C15_Witness ==
    /\ Loaded(last)
    /\ last.refreshed
    /\ last.gate = "changed"
    /\ cache.data[last.path].metadata.row_count = Len(RawRows("csv", 2))
    /\ Len(RawRows("csv", 2)) # Len(RawRows("csv", 1))

\* C16: last_checked of a path, once set, is never removed and never
\* decreases, whatever step is taken.
C16_LastCheckedNeverDecreases ==
    [][\A filepath \in DOMAIN cache.last_checked :
          /\ filepath \in DOMAIN cache'.last_checked
          /\ cache'.last_checked[filepath] >= cache.last_checked[filepath]]_vars

\* a background task has replaced an entry's check time by a later one
C16_Witness ==
    /\ last.op = "task"
    /\ last.nread = 1
    /\ last.gate \in {"changed", "hashfail"}
    /\ cache.last_checked[last.path] = now
    /\ now > CACHE_TIME

\* C17: normalising the records of a normalised table again, after they
\* are loaded into a DataFrame, gives the same records.
C17_NormalizeIsIdempotent ==
    frame.passes = 2 => frame.second = frame.first

\* both passes were made over a table with an empty number next to a date:
\* the first pass changed the table, and the DataFrame built from its
\* records was not the records themselves
C17_Witness ==
    /\ frame.passes = 2
    /\ Len(frame.raw) = MaxRows
    /\ frame.raw[1].a = NaN /\ frame.raw[1].b = Time(1)
    /\ frame.first[1].a = None /\ frame.first[1].b = Str(1)
    /\ FromRecords(frame.first) # frame.first

\* C18: after a load that refreshed, the stored hash is the hash of the
\* bytes the stored records were parsed from.
C18_FingerprintOfParsedBytes ==
    (Loaded(last) /\ last.refreshed)
    => \E c \in Contents :
          /\ cache.file_hashes[last.path] = MD5(c)
          /\ cache.data[last.path].data =
                Normalize(RawRows(FILE_CONFIG[last.id].type, c))

\* C19: a GET whose load returns refreshed = false leaves the cache as it
\* was, also when it hashed the file and found the stored hash.
C19_UnrefreshedGetKeepsCache ==
    [][(last'.op = "get" /\ Returned(last') /\ ~last'.refreshed)
       => /\ cache' = cache
          /\ last'.gate \in {"ttl", "same"}
          /\ last'.nread = 0]_vars

\* a GET found the entry past its TTL and the file unchanged: the entry's
\* check time is still the old one
C19_Witness ==
    /\ last.op = "get"
    /\ last.exc = ""
    /\ ~last.refreshed
    /\ last.gate = "same"
    /\ MD5(fs[last.path]) = cache.file_hashes[last.path]
    /\ cache.last_checked[last.path] + CACHE_TIME < now

\* the paths a dataset's file may have
PathsOf(id) == {JoinPath(r, FILE_CONFIG[id].filename) : r \in Roots}

\* C20: startup loads the catalog entries in order, each whatever became of
\* the ones before; a dataset whose load succeeded has its entry and a
\* dataset whose load failed has none.
C20_StartupLoadsEveryDataset ==
    /\ last.op = "startup" => last.id = FileIdOrder[started - 1]
    /\ (last.op = "startup" /\ Returned(last))
          => last.path \in DOMAIN cache.data
    /\ (last.op = "startup" /\ last.exc # "")
          => \A filepath \in PathsOf(last.id) :
                /\ filepath \notin DOMAIN cache.data
                /\ filepath \notin DOMAIN cache.last_checked

====
